---- MODULE Spec2Model ----
(***************************************************************************)
(* Model of the AKS health monitor: the control loop of                    *)
(* pkg/controller/controller.go (Run, checkHealth, evaluateThresholds),    *)
(* the Azure client of pkg/config/config.go (GetClusterOperationStatus,    *)
(* AbortClusterOperation) and the collector of pkg/metrics/collector.go.   *)
(*                                                                         *)
(* One step of the model is one external call returning, together with all *)
(* the local code that runs up to the next external call.  The managed     *)
(* cluster, the timer and the shutdown signal are the environment.         *)
(***************************************************************************)
EXTENDS Integers, Sequences, FiniteSets, TLC

VARIABLES
    pc,                   \* where Run is: select, status, track, pods, nodes, jobs, abort,
                          \* poll, stopped
    ctxDone,              \* ctx.Done() is closed
    tickPending,          \* a tick is buffered in ticker.C
    runResult,            \* what Run returned
    operationInProgress,  \* Controller.operationInProgress
    currentOperation,     \* Controller.currentOperation
    config,               \* Controller.config (poll interval, thresholds)
    cluster,              \* the managed cluster: its provisioning state
    collectedMetrics,     \* the metrics gathered so far in this cycle
    cyc,                  \* history of the current cycle
    hist,                 \* history across cycles
    ticks,                \* history of the ticker: ticks fired, dropped and received
    call,                 \* a function applied on its own: the function and its arguments
    ret                   \* what that function returned

vars == <<pc, ctxDone, tickPending, runResult, operationInProgress, currentOperation,
          config, cluster, collectedMetrics, cyc, hist, ticks, call, ret>>

\* the control loop
loop == <<pc, ctxDone, tickPending, runResult, operationInProgress, currentOperation,
          config, cluster, collectedMetrics, cyc, hist, ticks>>

----------------------------------------------------------------------------
(* Bounds *)

MaxEpisode == 2
MaxTicks == 3
MaxLen == 3
MaxPods == 1
MaxNodes == 1
MaxJobs == 1
MaxGroup == 2
MaxItems == 3
MaxContainers == 2
MaxConditions == 2

----------------------------------------------------------------------------
(* Strings as sequences of characters, for strings.Contains *)

Contains(s, substr) ==
    \E i \in 0..(Len(s) - Len(substr)) : SubSeq(s, i + 1, i + Len(substr)) = substr

Str409 == <<"4", "0", "9">>
StrConflict == <<"C", "o", "n", "f", "l", "i", "c", "t">>

\* errors: the chain of fmt.Errorf prefixes, and the status and text of the
\* error the SDK returned
NilError == [chain |-> <<>>, status |-> 0, text |-> <<>>]

Errorf(prefix, err) == [err EXCEPT !.chain = <<prefix>> \o @]

\* "409 Conflict": the operation completed before the cancellation
ErrConflict ==
    [chain |-> <<>>, status |-> 409,
     text |-> <<"4", "0", "9", " ", "C", "o", "n", "f", "l", "i", "c", "t">>]
\* "500 Internal": the request failed on the server
ErrServer ==
    [chain |-> <<>>, status |-> 500,
     text |-> <<"5", "0", "0", " ", "I", "n", "t", "e", "r", "n", "a", "l">>]
\* "POST /c409/abort 500": the same failure, on a cluster whose name holds 409
ErrServerUrl409 ==
    [chain |-> <<>>, status |-> 500,
     text |-> <<"P", "O", "S", "T", " ", "/", "c", "4", "0", "9", "/", "a", "b", "o", "r", "t",
                " ", "5", "0", "0">>]
\* "context canceled"
ErrCanceled ==
    [chain |-> <<>>, status |-> 0,
     text |-> <<"c", "o", "n", "t", "e", "x", "t", " ", "c", "a", "n", "c", "e", "l", "e", "d">>]

----------------------------------------------------------------------------
(* pkg/azure: the Azure client *)

InProgressStates == {"Upgrading", "Updating", "Scaling", "Creating", "Deleting"}
TerminalStates == {"Succeeded", "Failed", "Canceled"}
\* provisioning states the switch does not name
OtherStates == {"Canceling", "Stopping", "Starting", "upgrading", ""}
ProvisioningStates == InProgressStates \cup TerminalStates \cup OtherStates

\* the response of aksClient.Get: Properties and ProvisioningState are pointers
ClusterResponse(propertiesNil, stateNil, state) ==
    [PropertiesNil |-> propertiesNil, ProvisioningStateNil |-> stateNil,
     ProvisioningState |-> state]

NoStatus == [InProgress |-> FALSE, OperationType |-> "", Status |-> ""]

\* as SwitchProvisioningState, but only the monitored operations count
SwitchProvisioningState_monitored(provisioningState) ==
    CASE provisioningState \in {"Upgrading", "Updating", "Scaling"} ->
            [InProgress |-> TRUE, OperationType |-> provisioningState,
             Status |-> provisioningState]
      [] OTHER ->
            [InProgress |-> FALSE, OperationType |-> "", Status |-> provisioningState]

\* as SwitchProvisioningState, but the state is reported as the operation type
\* in every case
SwitchProvisioningState_keepsKind(provisioningState) ==
    CASE provisioningState \in {"Upgrading", "Updating", "Scaling", "Creating", "Deleting"} ->
            [InProgress |-> TRUE, OperationType |-> provisioningState,
             Status |-> provisioningState]
      [] OTHER ->
            [InProgress |-> FALSE, OperationType |-> provisioningState,
             Status |-> provisioningState]

\* the switch of GetClusterOperationStatus
SwitchProvisioningState(provisioningState) ==
    CASE provisioningState \in {"Upgrading", "Updating", "Scaling", "Creating", "Deleting"} ->
            [InProgress |-> TRUE, OperationType |-> provisioningState,
             Status |-> provisioningState]
      [] provisioningState \in {"Succeeded", "Failed", "Canceled"} ->
            [InProgress |-> FALSE, OperationType |-> "", Status |-> provisioningState]
      [] OTHER ->
            [InProgress |-> FALSE, OperationType |-> "", Status |-> provisioningState]

\* GetClusterOperationStatus, given what aksClient.Get returned
GetClusterOperationStatus(getErr, resp) ==
    IF getErr # NilError
    THEN [status |-> NoStatus, err |-> Errorf("failed to get cluster", getErr)]
    ELSE IF ~resp.PropertiesNil /\ ~resp.ProvisioningStateNil
         THEN [status |-> SwitchProvisioningState(resp.ProvisioningState), err |-> NilError]
         ELSE [status |-> NoStatus, err |-> NilError]

MsgTooFast == "operation completed before abort could take effect (operation was too fast)"
MsgInitiate == "failed to initiate abort operation"
MsgAbortFailed == "abort operation failed"

\* AbortClusterOperation, when BeginAbortLatestOperation returned an error
AbortRequestError(err) ==
    IF Contains(err.text, Str409) \/ Contains(err.text, StrConflict)
    THEN Errorf(MsgTooFast, err)
    ELSE Errorf(MsgInitiate, err)

\* AbortClusterOperation, when PollUntilDone returned
AbortWaitResult(err) ==
    IF err # NilError THEN Errorf(MsgAbortFailed, err) ELSE NilError

----------------------------------------------------------------------------
(* pkg/controller: thresholds *)

CrashingPodsPercentMetric == "crashing_pods_percent"
PendingPodsPercentMetric == "pending_pods_percent"
NotReadyNodesPercentMetric == "not_ready_nodes_percent"
FailedJobsMetric == "failed_jobs"
RestartCountMetric == "restart_count"
CpuUsagePercentMetric == "cpu_usage_percent"
MemoryUsagePercentMetric == "memory_usage_percent"

MetricTypes ==
    {CrashingPodsPercentMetric, PendingPodsPercentMetric, NotReadyNodesPercentMetric,
     FailedJobsMetric, RestartCountMetric, CpuUsagePercentMetric, MemoryUsagePercentMetric}

MetricValue(type, value) == [Type |-> type, Value |-> value]

\* as getThresholdForMetric, but a name without a mapping is never flagged
getThresholdForMetric_lenient(thresholds, metricType) ==
    CASE metricType = CrashingPodsPercentMetric -> thresholds.CrashingPodsPercent
      [] metricType = PendingPodsPercentMetric -> thresholds.PendingPodsPercent
      [] metricType = NotReadyNodesPercentMetric -> thresholds.NotReadyNodesPercent
      [] metricType = FailedJobsMetric -> thresholds.FailedJobs
      [] metricType = RestartCountMetric -> thresholds.RestartCount
      [] metricType = CpuUsagePercentMetric -> thresholds.CpuUsagePercent
      [] metricType = MemoryUsagePercentMetric -> thresholds.MemoryUsagePercent
      [] OTHER -> 100

getThresholdForMetric(thresholds, metricType) ==
    CASE metricType = CrashingPodsPercentMetric -> thresholds.CrashingPodsPercent
      [] metricType = PendingPodsPercentMetric -> thresholds.PendingPodsPercent
      [] metricType = NotReadyNodesPercentMetric -> thresholds.NotReadyNodesPercent
      [] metricType = FailedJobsMetric -> thresholds.FailedJobs
      [] metricType = RestartCountMetric -> thresholds.RestartCount
      [] metricType = CpuUsagePercentMetric -> thresholds.CpuUsagePercent
      [] metricType = MemoryUsagePercentMetric -> thresholds.MemoryUsagePercent
      [] OTHER -> 0

\* as Exceeds, but a value equal to its threshold violates
Exceeds_orEqual(value, threshold) == value >= threshold

\* the comparison of evaluateThresholds
Exceeds(value, threshold) == value > threshold

\* a violation is the string "<type>: <value> > <threshold>": its three parts
Violation(metric, threshold) ==
    [Type |-> metric.Type, Value |-> metric.Value, Threshold |-> threshold]

RECURSIVE evaluateThresholds(_, _)
evaluateThresholds(thresholds, metrics) ==
    IF metrics = <<>>
    THEN <<>>
    ELSE LET metric == Head(metrics)
             threshold == getThresholdForMetric(thresholds, metric.Type)
         IN  (IF Exceeds(metric.Value, threshold)
              THEN <<Violation(metric, threshold)>>
              ELSE <<>>) \o evaluateThresholds(thresholds, Tail(metrics))

----------------------------------------------------------------------------
(* pkg/metrics: the collector *)

\* a container status: State.Waiting and State.Terminated are pointers
ContainerStatus(waitingNil, reason, terminatedNil, exitCode, restartCount) ==
    [WaitingNil |-> waitingNil, Reason |-> reason,
     TerminatedNil |-> terminatedNil, ExitCode |-> exitCode,
     RestartCount |-> restartCount]

Pod(phase, containerStatuses) == [Phase |-> phase, ContainerStatuses |-> containerStatuses]

\* as isPodCrashing, but every waiting container counts
isPodCrashing_anyWaiting(pod) ==
    IF pod.Phase = "Failed"
    THEN TRUE
    ELSE \E i \in 1..Len(pod.ContainerStatuses) :
            LET containerStatus == pod.ContainerStatuses[i]
            IN  \/ ~containerStatus.WaitingNil
                \/ /\ ~containerStatus.TerminatedNil
                   /\ containerStatus.ExitCode # 0

isPodCrashing(pod) ==
    IF pod.Phase = "Failed"
    THEN TRUE
    ELSE \E i \in 1..Len(pod.ContainerStatuses) :
            LET containerStatus == pod.ContainerStatuses[i]
            IN  \/ /\ ~containerStatus.WaitingNil
                   /\ containerStatus.Reason \in
                        {"CrashLoopBackOff", "ImagePullBackOff", "ErrImagePull",
                         "CreateContainerError"}
                \/ /\ ~containerStatus.TerminatedNil
                   /\ containerStatus.ExitCode # 0

\* as isNodeReady, but only a Ready condition of status False makes a node not
\* ready
isNodeReady_unknownReady(node) ==
    LET ready == {i \in 1..Len(node.Conditions) : node.Conditions[i].Type = "Ready"}
    IN  IF ready = {}
        THEN FALSE
        ELSE LET first == CHOOSE i \in ready : \A j \in ready : i <= j
             IN  node.Conditions[first].Status # "False"

\* the first condition of type Ready decides
isNodeReady(node) ==
    LET ready == {i \in 1..Len(node.Conditions) : node.Conditions[i].Type = "Ready"}
    IN  IF ready = {}
        THEN FALSE
        ELSE LET first == CHOOSE i \in ready : \A j \in ready : i <= j
             IN  node.Conditions[first].Status = "True"

RECURSIVE SumRestarts(_)
SumRestarts(containerStatuses) ==
    IF containerStatuses = <<>>
    THEN 0
    ELSE Head(containerStatuses).RestartCount + SumRestarts(Tail(containerStatuses))

RECURSIVE TotalRestarts(_)
TotalRestarts(pods) ==
    IF pods = <<>>
    THEN 0
    ELSE SumRestarts(Head(pods).ContainerStatuses) + TotalRestarts(Tail(pods))

\* as Percent, but the division is made before the multiplication
Percent_divideFirst(count, total) == IF total > 0 THEN (count \div total) * 100 ELSE 0

\* as Percent, but an empty group counts as wholly unhealthy
Percent_emptyIsFull(count, total) == IF total > 0 THEN (count * 100) \div total ELSE 100

\* (count * 100) / total, 0 when total is 0
Percent(count, total) == IF total > 0 THEN (count * 100) \div total ELSE 0

collectPodMetrics(pods) ==
    LET crashingPods == Cardinality({i \in 1..Len(pods) : isPodCrashing(pods[i])})
        pendingPods == Cardinality({i \in 1..Len(pods) : pods[i].Phase = "Pending"})
        totalRestarts == TotalRestarts(pods)
        totalPods == Len(pods)
    IN  << MetricValue(CrashingPodsPercentMetric, Percent(crashingPods, totalPods)),
           MetricValue(PendingPodsPercentMetric, Percent(pendingPods, totalPods)),
           MetricValue(RestartCountMetric, totalRestarts) >>

\* as collectNodeMetrics, but a CPU usage measurement is appended
collectNodeMetrics_withCpu(nodes) ==
    LET notReadyNodes == Cardinality({i \in 1..Len(nodes) : ~isNodeReady(nodes[i])})
        totalNodes == Len(nodes)
    IN  << MetricValue(NotReadyNodesPercentMetric, Percent(notReadyNodes, totalNodes)),
           MetricValue(CpuUsagePercentMetric, 50) >>

collectNodeMetrics(nodes) ==
    LET notReadyNodes == Cardinality({i \in 1..Len(nodes) : ~isNodeReady(nodes[i])})
        totalNodes == Len(nodes)
    IN  << MetricValue(NotReadyNodesPercentMetric, Percent(notReadyNodes, totalNodes)) >>

\* as collectJobMetrics, but one measurement is emitted for each failed job
collectJobMetrics_perJob(jobs) ==
    LET failed(job) == job.Failed > 0
    IN  [i \in 1..Len(SelectSeq(jobs, failed)) |-> MetricValue(FailedJobsMetric, 1)]

collectJobMetrics(jobs) ==
    LET failedJobs == Cardinality({i \in 1..Len(jobs) : jobs[i].Failed > 0})
    IN  << MetricValue(FailedJobsMetric, failedJobs) >>

\* what a List call of the cluster API returns: the items, or an error
ListResult(items, err) == [items |-> items, err |-> err]

\* as CollectMetrics, but the measurements gathered before the failing group are
\* returned with the error
CollectMetrics_partial(pods, nodes, jobs) ==
    IF pods.err # NilError
    THEN [metrics |-> <<>>, err |-> Errorf("failed to list pods", pods.err), listCalls |-> 1]
    ELSE IF nodes.err # NilError
    THEN [metrics |-> collectPodMetrics(pods.items),
          err |-> Errorf("failed to list nodes", nodes.err), listCalls |-> 2]
    ELSE IF jobs.err # NilError
    THEN [metrics |-> collectPodMetrics(pods.items) \o collectNodeMetrics(nodes.items),
          err |-> Errorf("failed to list jobs", jobs.err), listCalls |-> 3]
    ELSE [metrics |-> collectPodMetrics(pods.items) \o collectNodeMetrics(nodes.items)
                        \o collectJobMetrics(jobs.items),
          err |-> NilError, listCalls |-> 3]

\* CollectMetrics as a whole, given what the three List calls return: the
\* snapshot, the error, and the number of List calls made
CollectMetrics(pods, nodes, jobs) ==
    IF pods.err # NilError
    THEN [metrics |-> <<>>, err |-> Errorf("failed to list pods", pods.err), listCalls |-> 1]
    ELSE IF nodes.err # NilError
    THEN [metrics |-> <<>>, err |-> Errorf("failed to list nodes", nodes.err), listCalls |-> 2]
    ELSE IF jobs.err # NilError
    THEN [metrics |-> <<>>, err |-> Errorf("failed to list jobs", jobs.err), listCalls |-> 3]
    ELSE [metrics |-> collectPodMetrics(pods.items) \o collectNodeMetrics(nodes.items)
                        \o collectJobMetrics(jobs.items),
          err |-> NilError, listCalls |-> 3]

\* what the cluster API can list
NoWaiting == "none"
PodSet ==
    { Pod("Running", <<ContainerStatus(TRUE, NoWaiting, TRUE, 0, 0)>>),
      Pod("Pending", <<>>),
      Pod("Failed", <<ContainerStatus(TRUE, NoWaiting, FALSE, 1, 0)>>),
      Pod("Running", <<ContainerStatus(FALSE, "CrashLoopBackOff", TRUE, 0, 21)>>) }

NodeSet ==
    { [Conditions |-> <<[Type |-> "Ready", Status |-> "True"]>>],
      [Conditions |-> <<[Type |-> "Ready", Status |-> "False"]>>],
      [Conditions |-> <<[Type |-> "MemoryPressure", Status |-> "True"]>>] }

JobSet == { [Failed |-> 0], [Failed |-> 1] }

SeqsUpTo(S, n) == UNION {[1..k -> S] : k \in 0..n}

PodLists == SeqsUpTo(PodSet, MaxPods)
NodeLists == SeqsUpTo(NodeSet, MaxNodes)
JobLists == SeqsUpTo(JobSet, MaxJobs)

----------------------------------------------------------------------------
(* pkg/config: the thresholds the controller is constructed with *)

Thresholds(crashing, pending, notReady, failedJobs, restarts, cpu, memory) ==
    [CrashingPodsPercent |-> crashing, PendingPodsPercent |-> pending,
     NotReadyNodesPercent |-> notReady, FailedJobs |-> failedJobs,
     RestartCount |-> restarts, CpuUsagePercent |-> cpu, MemoryUsagePercent |-> memory]

\* the defaults of LoadConfigFromConfigMap
DefaultThresholds == Thresholds(10, 15, 25, 3, 20, 85, 90)
\* the defaults, and thresholds that a measurement can equal
ThresholdsSet ==
    { DefaultThresholds,
      Thresholds(50, 100, 50, 1, 21, 85, 90) }

\* durations are counted in milliseconds
Second == 1000

\* the poll interval LoadConfigFromConfigMap starts from
DefaultPollInterval == 30 * Second

\* the operations LoadConfigFromConfigMap names as monitored by default
DefaultMonitoredOperations == <<"upgrade", "update", "scale">>

\* the Config the controller holds, without the identity fields
ControllerConfig(pollInterval, thresholds) ==
    [PollInterval |-> pollInterval, Thresholds |-> thresholds,
     MonitoredOperations |-> DefaultMonitoredOperations]

\* errors.New / fmt.Errorf without a wrapped error
NewError(msg) == [NilError EXCEPT !.chain = <<msg>>]

\* the identity fields of AzureConfig
AzureFields ==
    {"SubscriptionID", "ResourceGroupName", "ClusterName", "TenantID", "ClientID",
     "ClientSecret"}

\* the fields of ThresholdsConfig
ThresholdFields == DOMAIN DefaultThresholds

\* the environment variable each field is read from
AzureEnv ==
    [SubscriptionID |-> "AZURE_SUBSCRIPTION_ID", ResourceGroupName |-> "AZURE_RESOURCE_GROUP",
     ClusterName |-> "AZURE_CLUSTER_NAME", TenantID |-> "AZURE_TENANT_ID",
     ClientID |-> "AZURE_CLIENT_ID", ClientSecret |-> "AZURE_CLIENT_SECRET"]

ThresholdEnv ==
    [CrashingPodsPercent |-> "THRESHOLD_CRASHING_PODS_PERCENT",
     PendingPodsPercent |-> "THRESHOLD_PENDING_PODS_PERCENT",
     NotReadyNodesPercent |-> "THRESHOLD_NOT_READY_NODES_PERCENT",
     FailedJobs |-> "THRESHOLD_FAILED_JOBS",
     RestartCount |-> "THRESHOLD_RESTART_COUNT",
     CpuUsagePercent |-> "THRESHOLD_CPU_USAGE_PERCENT",
     MemoryUsagePercent |-> "THRESHOLD_MEMORY_USAGE_PERCENT"]

\* os.Getenv: the value of the variable, the empty string when it is not set;
\* values are sequences of characters
Getenv(env, key) == IF key \in DOMAIN env THEN env[key] ELSE <<>>

getEnvOrDefault(env, key, defaultValue) ==
    IF Getenv(env, key) # <<>> THEN Getenv(env, key) ELSE defaultValue

Digits == <<"0", "1", "2", "3", "4", "5", "6", "7", "8", "9">>
IsDigit(c) == \E d \in 1..Len(Digits) : Digits[d] = c
DigitValue(c) == (CHOOSE d \in 1..Len(Digits) : Digits[d] = c) - 1

RECURSIVE DecimalValue(_)
DecimalValue(digits) ==
    IF digits = <<>>
    THEN 0
    ELSE DecimalValue(SubSeq(digits, 1, Len(digits) - 1)) * 10
            + DigitValue(digits[Len(digits)])

\* strconv.Atoi: an optional sign and at least one decimal digit
Atoi(str) ==
    LET signed == str # <<>> /\ str[1] \in {"+", "-"}
        digits == IF signed THEN Tail(str) ELSE str
    IN  IF digits # <<>> /\ \A i \in 1..Len(digits) : IsDigit(digits[i])
        THEN [ok |-> TRUE,
              value |-> IF signed /\ str[1] = "-"
                        THEN 0 - DecimalValue(digits) ELSE DecimalValue(digits)]
        ELSE [ok |-> FALSE, value |-> 0]

parseIntEnvOrDefault(env, key, defaultValue) ==
    IF Getenv(env, key) # <<>> /\ Atoi(Getenv(env, key)).ok
    THEN Atoi(Getenv(env, key)).value
    ELSE defaultValue

\* time.ParseDuration on the texts the model sets POLL_INTERVAL to
ParseDuration(str) ==
    CASE str = <<"3", "0", "s">> -> [ok |-> TRUE, value |-> 30 * Second]
      [] str = <<"5", "0", "0", "m", "s">> -> [ok |-> TRUE, value |-> 500]
      [] str = <<"0">> -> [ok |-> TRUE, value |-> 0]
      [] OTHER -> [ok |-> FALSE, value |-> 0]

\* a key of the ConfigMap file with its value, and a key the file does not hold
Key(v) == [present |-> TRUE, value |-> v]
NoNumber == [present |-> FALSE, value |-> 0]
NoText == [present |-> FALSE, value |-> <<>>]

\* yaml.Unmarshal into an empty Config: a key the file does not hold leaves the
\* zero value of its field
Unmarshal(doc) ==
    [PollInterval |-> IF doc.pollInterval.present THEN doc.pollInterval.value ELSE 0,
     Azure |-> [f \in AzureFields |->
                  IF doc.azure[f].present THEN doc.azure[f].value ELSE <<>>],
     Thresholds |-> [f \in ThresholdFields |->
                       IF doc.thresholds[f].present THEN doc.thresholds[f].value ELSE 0]]

\* as Validate, but the credential fields are required as well
Validate_credentials(c) ==
    IF \E f \in AzureFields : c.Azure[f] = <<>>
    THEN NewError("Azure identity is required")
    ELSE IF c.PollInterval < Second
    THEN NewError("poll interval must be at least 1 second")
    ELSE IF \E f \in {"CrashingPodsPercent", "PendingPodsPercent", "NotReadyNodesPercent",
                       "CpuUsagePercent", "MemoryUsagePercent"} :
               c.Thresholds[f] < 0 \/ c.Thresholds[f] > 100
    THEN NewError("threshold must be between 0 and 100")
    ELSE NilError

\* Config.Validate
Validate(c) ==
    IF c.Azure.SubscriptionID = <<>>
    THEN NewError("Azure subscription ID is required")
    ELSE IF c.Azure.ResourceGroupName = <<>>
    THEN NewError("Azure resource group name is required")
    ELSE IF c.Azure.ClusterName = <<>>
    THEN NewError("Azure cluster name is required")
    ELSE IF c.PollInterval < Second
    THEN NewError("poll interval must be at least 1 second")
    ELSE IF c.Thresholds.CrashingPodsPercent < 0 \/ c.Thresholds.CrashingPodsPercent > 100
    THEN NewError("crashingPodsPercent must be between 0 and 100")
    ELSE IF c.Thresholds.PendingPodsPercent < 0 \/ c.Thresholds.PendingPodsPercent > 100
    THEN NewError("pendingPodsPercent must be between 0 and 100")
    ELSE IF c.Thresholds.NotReadyNodesPercent < 0 \/ c.Thresholds.NotReadyNodesPercent > 100
    THEN NewError("notReadyNodesPercent must be between 0 and 100")
    ELSE IF c.Thresholds.CpuUsagePercent < 0 \/ c.Thresholds.CpuUsagePercent > 100
    THEN NewError("cpuUsagePercent must be between 0 and 100")
    ELSE IF c.Thresholds.MemoryUsagePercent < 0 \/ c.Thresholds.MemoryUsagePercent > 100
    THEN NewError("memoryUsagePercent must be between 0 and 100")
    ELSE NilError

\* the configuration built from the environment alone
EnvConfig(env) ==
    [PollInterval |->
        IF Getenv(env, "POLL_INTERVAL") # <<>> /\ ParseDuration(Getenv(env, "POLL_INTERVAL")).ok
        THEN ParseDuration(Getenv(env, "POLL_INTERVAL")).value
        ELSE DefaultPollInterval,
     Azure |-> [f \in AzureFields |-> getEnvOrDefault(env, AzureEnv[f], <<>>)],
     Thresholds |-> [f \in ThresholdFields |->
                       parseIntEnvOrDefault(env, ThresholdEnv[f], DefaultThresholds[f])]]

\* the values of the file laid over the configuration of the environment
Overlay(cfg, fileConfig) ==
    [PollInterval |-> IF fileConfig.PollInterval > 0
                      THEN fileConfig.PollInterval ELSE cfg.PollInterval,
     Azure |-> [f \in AzureFields |->
                  IF cfg.Azure[f] = <<>> /\ fileConfig.Azure[f] # <<>>
                  THEN fileConfig.Azure[f] ELSE cfg.Azure[f]],
     Thresholds |-> [f \in ThresholdFields |->
                       IF fileConfig.Thresholds[f] > 0
                       THEN fileConfig.Thresholds[f] ELSE cfg.Thresholds[f]]]

\* the Config that is returned with an error
NilConfig == [PollInterval |-> 0, Azure |-> [f \in AzureFields |-> <<>>],
              Thresholds |-> [f \in ThresholdFields |-> 0]]

\* LoadConfigFromConfigMap: file is what is found at configPath: nothing
\* ("absent"), a file that cannot be read ("unreadable") or parsed
\* ("unparsable"), or a document ("parsed")
LoadConfigFromConfigMap(env, file) ==
    IF file.kind = "unreadable"
    THEN [config |-> NilConfig,
          err |-> Errorf("failed to read config file from ConfigMap",
                         NewError("read error"))]
    ELSE IF file.kind = "unparsable"
    THEN [config |-> NilConfig,
          err |-> Errorf("failed to parse config file from ConfigMap",
                         NewError("yaml error"))]
    ELSE LET cfg == IF file.kind = "parsed"
                    THEN Overlay(EnvConfig(env), Unmarshal(file.doc))
                    ELSE EnvConfig(env)
         IN  IF Validate(cfg) # NilError
             THEN [config |-> NilConfig,
                   err |-> Errorf("invalid configuration", Validate(cfg))]
             ELSE [config |-> cfg, err |-> NilError]

----------------------------------------------------------------------------
(* History *)

\* the record of one cycle (one execution of checkHealth)
NoCycle ==
    [ started |-> FALSE,         \* a cycle has begun
      done |-> TRUE,             \* checkHealth has returned
      preInProgress |-> FALSE,   \* operationInProgress when the cycle began
      preOperation |-> "",       \* currentOperation when the cycle began
      statusCalls |-> 0,         \* calls of GetClusterOperationStatus
      status |-> "none",         \* none, ok, err
      response |-> ClusterResponse(TRUE, TRUE, ""),  \* what aksClient.Get returned
      result |-> NoStatus,       \* the OperationStatus returned
      sameOp |-> FALSE,          \* the previous status query saw the same operation
      collectCalls |-> 0,        \* calls of CollectMetrics
      listCalls |-> 0,           \* list calls made by CollectMetrics
      collect |-> "none",        \* none, ok, err
      evaluations |-> 0,         \* calls of evaluateThresholds
      nviolations |-> 0,         \* violations found
      abortCalls |-> 0,          \* calls of abortOperation
      requestErr |-> NilError,   \* what BeginAbortLatestOperation returned
      sent |-> 0,                \* cancellation requests that reached the API
      abortedOther |-> FALSE,    \* the request cancelled an operation the status query did not see
      pollCalls |-> 0,           \* calls of PollUntilDone
      pollErr |-> NilError,      \* what PollUntilDone returned
      abortReturned |-> FALSE,   \* AbortClusterOperation has returned
      abortErr |-> NilError,     \* what AbortClusterOperation returned
      err |-> NilError,          \* what checkHealth returned
      failedLogged |-> FALSE,    \* Run logged "Health check failed"
      abortedLogged |-> FALSE ]  \* checkHealth logged "Successfully aborted operation"

NoEpisode == [len |-> 0, calls |-> 0, sent |-> 0]

\* the outcome of the abort call of a cycle
AbortOutcome(c) ==
    IF ~c.abortReturned THEN "none"
    ELSE IF c.abortErr = NilError THEN "Succeeded"
    ELSE IF Head(c.abortErr.chain) = MsgTooFast THEN "TooLate"
    ELSE "Failed"

\* the step at which the cycle failed
CycleFailure(c) ==
    IF c.err = NilError THEN "none"
    ELSE IF c.status = "err" THEN "status"
    ELSE IF c.collect = "err" THEN "collect"
    ELSE "abort"

\* the cycle found an operation in progress and a violating snapshot
Violating(c) ==
    /\ c.status = "ok" /\ c.result.InProgress
    /\ c.collect = "ok" /\ c.nviolations > 0

\* the run of consecutive violating cycles that observed the same operation
NextEpisode(episode, c) ==
    IF Violating(c)
    THEN IF episode.len > 0 /\ c.sameOp
         THEN [len |-> episode.len + 1, calls |-> episode.calls + c.abortCalls,
               sent |-> episode.sent + c.sent]
         ELSE [len |-> 1, calls |-> c.abortCalls, sent |-> c.sent]
    ELSE NoEpisode

----------------------------------------------------------------------------
(* Initial state: the controller as NewController returns it, Run started *)

NoCall == [fn |-> "none"]

\* the ticker has not fired
NoTicks == [fired |-> 0, dropped |-> 0, cycles |-> 0, sinceTick |-> 0]

Init ==
    /\ pc = "select"
    /\ ctxDone = FALSE
    /\ tickPending = FALSE
    /\ runResult = "running"
    /\ operationInProgress = FALSE
    /\ currentOperation = ""
    /\ config \in {ControllerConfig(DefaultPollInterval, t) : t \in ThresholdsSet}
    /\ cluster = [state |-> "Succeeded"]
    /\ collectedMetrics = <<>>
    /\ cyc = NoCycle
    /\ hist = [prevOutcome |-> "none", prevFailure |-> "none", sinceQuery |-> TRUE,
               episode |-> NoEpisode]
    /\ ticks = NoTicks
    /\ call = NoCall
    /\ ret = NoCall

----------------------------------------------------------------------------
(* The environment: the managed cluster, the timer, the shutdown signal *)

\* the operations that start on the cluster while the loop runs: one the
\* configuration monitors and one it does not; the switch over all provisioning
\* states is applied on its own in SpecPure
StartedKinds == {"Upgrading", "Deleting"}

\* a mutating operation starts on the cluster
StartOperation ==
    /\ pc # "stopped"
    /\ cluster.state \notin InProgressStates
    /\ \E kind \in StartedKinds : cluster' = [cluster EXCEPT !.state = kind]
    /\ hist' = [hist EXCEPT !.sinceQuery = TRUE]
    /\ UNCHANGED <<pc, ctxDone, tickPending, runResult, operationInProgress,
                   currentOperation, config, collectedMetrics, cyc>>
    /\ UNCHANGED <<call, ret, ticks>>

\* the running operation ends by itself
FinishOperation ==
    /\ pc # "stopped"
    /\ cluster.state \in InProgressStates
    /\ \E state \in {"Succeeded", "Failed"} :
          cluster' = [cluster EXCEPT !.state = state]
    /\ UNCHANGED <<pc, ctxDone, tickPending, runResult, operationInProgress,
                   currentOperation, config, collectedMetrics, cyc, hist>>
    /\ UNCHANGED <<call, ret, ticks>>

\* the cancellation of an operation finishes
FinishCancel ==
    /\ pc # "stopped"
    /\ cluster.state = "Canceling"
    /\ cluster' = [cluster EXCEPT !.state = "Canceled"]
    /\ UNCHANGED <<pc, ctxDone, tickPending, runResult, operationInProgress,
                   currentOperation, config, collectedMetrics, cyc, hist>>
    /\ UNCHANGED <<call, ret, ticks>>

\* the ticker sends on ticker.C without blocking: ticker.C holds one tick, a
\* further one is dropped
TickerSend ==
    /\ pc # "stopped"
    /\ tickPending' = TRUE
    /\ UNCHANGED <<pc, ctxDone, runResult, operationInProgress, currentOperation,
                   config, cluster, collectedMetrics, cyc, hist>>
    /\ UNCHANGED <<call, ret>>

\* the ticker fires
TickFire ==
    /\ TickerSend
    /\ UNCHANGED ticks

\* the ticker fires, and the tick is counted: as fired, and as dropped when
\* ticker.C is full
TickFireCounted ==
    /\ ticks.fired < MaxTicks
    /\ TickerSend
    /\ ticks' = [ticks EXCEPT !.fired = @ + 1,
                              !.dropped = IF tickPending THEN @ + 1 ELSE @,
                              !.sinceTick = 0]

\* SIGINT or SIGTERM: main cancels the context
Cancel ==
    /\ pc # "stopped"
    /\ ~ctxDone
    /\ ctxDone' = TRUE
    /\ UNCHANGED <<pc, tickPending, runResult, operationInProgress, currentOperation,
                   config, cluster, collectedMetrics, cyc, hist>>
    /\ UNCHANGED <<call, ret, ticks>>

\* the error of a call that fails in transport
TransportErrors == {ErrServer}

----------------------------------------------------------------------------
(* pkg/controller: Run and checkHealth *)

\* as ReturnToRunWith, but Run returns when checkHealth fails
ReturnToRunWith_fatal(c, err, h) ==
    LET d == [c EXCEPT !.done = TRUE, !.err = err, !.failedLogged = (err # NilError)]
    IN  /\ pc' = IF err # NilError THEN "stopped" ELSE "select"
        /\ cyc' = d
        /\ hist' = [h EXCEPT !.episode = NextEpisode(@, d)]
        /\ collectedMetrics' = <<>>

\* Controller.GetStatus: the map it returns when it reads the fields as they
\* are now
GetStatus ==
    [operationInProgress |-> operationInProgress,
     currentOperation |-> currentOperation,
     pollInterval |-> config.PollInterval,
     thresholds |-> config.Thresholds]

\* as ReturnToRunWith, but the snapshot is kept in the controller between cycles
ReturnToRunWith_keepsSnapshot(c, err, h) ==
    LET d == [c EXCEPT !.done = TRUE, !.err = err, !.failedLogged = (err # NilError)]
    IN  /\ pc' = "select"
        /\ cyc' = d
        /\ hist' = [h EXCEPT !.episode = NextEpisode(@, d)]
        /\ UNCHANGED collectedMetrics

\* checkHealth returns err to Run, which logs it and selects again; the locals
\* of checkHealth are gone
ReturnToRunWith(c, err, h) ==
    LET d == [c EXCEPT !.done = TRUE, !.err = err, !.failedLogged = (err # NilError)]
    IN  /\ pc' = "select"
        /\ cyc' = d
        /\ hist' = [h EXCEPT !.episode = NextEpisode(@, d)]
        /\ collectedMetrics' = <<>>

ReturnToRun(c, err) == ReturnToRunWith(c, err, hist)

\* as SelectDone, but Run has no case for <-ctx.Done()
SelectDone_ignored ==
    /\ pc = "select"
    /\ ctxDone
    /\ UNCHANGED vars

\* select takes <-ctx.Done(): Run returns nil
SelectDone ==
    /\ pc = "select"
    /\ ctxDone
    /\ pc' = "stopped"
    /\ runResult' = "nil"
    /\ UNCHANGED <<ctxDone, tickPending, operationInProgress, currentOperation,
                   config, cluster, collectedMetrics, cyc, hist>>
    /\ UNCHANGED <<call, ret, ticks>>

\* as SelectTick, but a tick starts checkHealth whether or not the previous
\* call has returned
SelectTick_overlap ==
    /\ pc # "stopped"
    /\ tickPending
    /\ hist.episode.len < MaxEpisode
    /\ tickPending' = FALSE
    /\ pc' = "status"
    /\ cyc' = [NoCycle EXCEPT !.started = TRUE, !.done = FALSE,
                              !.preInProgress = operationInProgress,
                              !.preOperation = currentOperation,
                              !.statusCalls = 1]
    /\ hist' = [hist EXCEPT !.prevOutcome = AbortOutcome(cyc),
                            !.prevFailure = CycleFailure(cyc)]
    /\ UNCHANGED <<ctxDone, runResult, operationInProgress, currentOperation,
                   config, cluster, collectedMetrics>>
    /\ UNCHANGED <<call, ret, ticks>>

\* as ReceiveTick, but the tick stays in ticker.C
ReceiveTick_leavesTick ==
    /\ pc = "select"
    /\ tickPending
    /\ hist.episode.len < MaxEpisode
    /\ pc' = "status"
    /\ cyc' = [NoCycle EXCEPT !.started = TRUE, !.done = FALSE,
                              !.preInProgress = operationInProgress,
                              !.preOperation = currentOperation,
                              !.statusCalls = 1]
    /\ hist' = [hist EXCEPT !.prevOutcome = AbortOutcome(cyc),
                            !.prevFailure = CycleFailure(cyc)]
    /\ UNCHANGED <<ctxDone, tickPending, runResult, operationInProgress, currentOperation,
                   config, cluster, collectedMetrics>>
    /\ UNCHANGED <<call, ret>>

\* case <-ticker.C: the tick is taken out of ticker.C, checkHealth begins and
\* calls GetClusterOperationStatus
ReceiveTick ==
    /\ pc = "select"
    /\ tickPending
    /\ hist.episode.len < MaxEpisode
    /\ tickPending' = FALSE
    /\ pc' = "status"
    /\ cyc' = [NoCycle EXCEPT !.started = TRUE, !.done = FALSE,
                              !.preInProgress = operationInProgress,
                              !.preOperation = currentOperation,
                              !.statusCalls = 1]
    /\ hist' = [hist EXCEPT !.prevOutcome = AbortOutcome(cyc),
                            !.prevFailure = CycleFailure(cyc)]
    /\ UNCHANGED <<ctxDone, runResult, operationInProgress, currentOperation,
                   config, cluster, collectedMetrics>>
    /\ UNCHANGED <<call, ret>>

\* select takes <-ticker.C
SelectTick ==
    /\ ReceiveTick
    /\ UNCHANGED ticks

\* select takes <-ticker.C, and the cycle is counted
SelectTickCounted ==
    /\ ReceiveTick
    /\ ticks' = [ticks EXCEPT !.cycles = @ + 1, !.sinceTick = @ + 1]

\* what aksClient.Get can answer for the cluster
GetResponses ==
    { ClusterResponse(FALSE, FALSE, cluster.state),
      ClusterResponse(FALSE, TRUE, ""),
      ClusterResponse(TRUE, TRUE, "") }

\* as TrackStatus, but the field is assigned before the error is looked at
TrackStatus_always(r) ==
    operationInProgress' = r.status.InProgress

\* checkHealth records the status it got, unless the query failed: the first of
\* its two assignments, c.operationInProgress = operationStatus.InProgress
TrackStatus(r) ==
    IF r.err # NilError
    THEN UNCHANGED operationInProgress
    ELSE operationInProgress' = r.status.InProgress

\* as NoOperation, but the cycle is never skipped
NoOperation_never(inProgress) == FALSE

\* the name config.MonitoredOperations would use for an operation kind
OperationName(kind) ==
    CASE kind = "Upgrading" -> "upgrade"
      [] kind = "Updating" -> "update"
      [] kind = "Scaling" -> "scale"
      [] OTHER -> ""

\* as NoOperation, but an operation that config.MonitoredOperations does not
\* name is skipped as well
NoOperation_unmonitored(inProgress) ==
    \/ ~inProgress
    \/ \A i \in 1..Len(config.MonitoredOperations) :
          config.MonitoredOperations[i] # OperationName(cyc.result.OperationType)

\* the test of checkHealth that skips the rest of the cycle
NoOperation(inProgress) == ~inProgress

\* GetClusterOperationStatus returns; on success checkHealth makes the first
\* of its two assignments
StatusReturn ==
    /\ pc = "status"
    /\ \E getErr \in {NilError} \cup TransportErrors, resp \in GetResponses :
          LET r == GetClusterOperationStatus(getErr, resp)
              c == [cyc EXCEPT !.status = IF r.err = NilError THEN "ok" ELSE "err",
                               !.response = IF r.err = NilError THEN resp ELSE @,
                               !.result = r.status,
                               !.sameOp = (r.err = NilError /\ ~hist.sinceQuery)]
          IN  /\ TrackStatus(r)
              /\ IF r.err # NilError
                 THEN ReturnToRun(c, Errorf("failed to get cluster operation status", r.err))
                 ELSE /\ pc' = "track"
                      /\ cyc' = c
                      /\ hist' = [hist EXCEPT !.sinceQuery = FALSE]
                      /\ UNCHANGED collectedMetrics
    /\ UNCHANGED <<ctxDone, tickPending, runResult, currentOperation, config, cluster>>
    /\ UNCHANGED <<call, ret, ticks>>

\* as TrackOperation, but the default thresholds are put back in every cycle
TrackOperation_reloads ==
    /\ pc = "track"
    /\ currentOperation' = cyc.result.OperationType
    /\ config' = [config EXCEPT !.Thresholds = DefaultThresholds]
    /\ IF NoOperation(operationInProgress)
       THEN ReturnToRun(cyc, NilError)
       ELSE /\ pc' = "pods"
            /\ cyc' = [cyc EXCEPT !.collectCalls = @ + 1, !.listCalls = @ + 1]
            /\ UNCHANGED <<hist, collectedMetrics>>
    /\ UNCHANGED <<ctxDone, tickPending, runResult, operationInProgress, cluster>>
    /\ UNCHANGED <<call, ret, ticks>>

\* the second assignment, c.currentOperation = operationStatus.OperationType;
\* then checkHealth returns when no operation is in progress, and calls
\* CollectMetrics otherwise
TrackOperation ==
    /\ pc = "track"
    /\ currentOperation' = cyc.result.OperationType
    /\ IF NoOperation(operationInProgress)
       THEN ReturnToRun(cyc, NilError)
       ELSE /\ pc' = "pods"
            /\ cyc' = [cyc EXCEPT !.collectCalls = @ + 1, !.listCalls = @ + 1]
            /\ UNCHANGED <<hist, collectedMetrics>>
    /\ UNCHANGED <<ctxDone, tickPending, runResult, operationInProgress, config, cluster>>
    /\ UNCHANGED <<call, ret, ticks>>

\* as CollectFailed, but a cluster that cannot be observed is taken as unhealthy
CollectFailed_abort(err) ==
    /\ pc' = "abort"
    /\ cyc' = [cyc EXCEPT !.collect = "err", !.abortCalls = @ + 1]
    /\ collectedMetrics' = <<>>
    /\ UNCHANGED hist

\* CollectMetrics failed: checkHealth returns the error
CollectFailed(err) ==
    ReturnToRun([cyc EXCEPT !.collect = "err"], Errorf("failed to collect metrics", err))

\* Pods("").List returns
PodsReturn ==
    /\ pc = "pods"
    /\ \/ \E err \in TransportErrors : CollectFailed(Errorf("failed to list pods", err))
       \/ \E pods \in PodLists :
             /\ collectedMetrics' = collectPodMetrics(pods)
             /\ pc' = "nodes"
             /\ cyc' = [cyc EXCEPT !.listCalls = @ + 1]
             /\ UNCHANGED hist
    /\ UNCHANGED <<ctxDone, tickPending, runResult, operationInProgress,
                   currentOperation, config, cluster>>
    /\ UNCHANGED <<call, ret, ticks>>

\* Nodes().List returns
NodesReturn ==
    /\ pc = "nodes"
    /\ \/ \E err \in TransportErrors : CollectFailed(Errorf("failed to list nodes", err))
       \/ \E nodes \in NodeLists :
             /\ collectedMetrics' = collectedMetrics \o collectNodeMetrics(nodes)
             /\ pc' = "jobs"
             /\ cyc' = [cyc EXCEPT !.listCalls = @ + 1]
             /\ UNCHANGED hist
    /\ UNCHANGED <<ctxDone, tickPending, runResult, operationInProgress,
                   currentOperation, config, cluster>>
    /\ UNCHANGED <<call, ret, ticks>>

\* as ShouldAbort, but a single violation is tolerated
ShouldAbort_several(v) == Len(v) > 1

\* as ShouldAbort, but only in the first cycle that sees the operation
ShouldAbort_once(v) == Len(v) > 0 /\ ~cyc.preInProgress

\* the test of checkHealth on the violations
ShouldAbort(v) == Len(v) > 0

\* Jobs("").List returns: CollectMetrics returns the snapshot, checkHealth
\* evaluates it and, on a violation, logs the violations and calls
\* abortOperation; neither the snapshot nor the violations are used after that
JobsReturn ==
    /\ pc = "jobs"
    /\ \/ \E err \in TransportErrors : CollectFailed(Errorf("failed to list jobs", err))
       \/ \E jobs \in JobLists :
             LET metrics == collectedMetrics \o collectJobMetrics(jobs)
                 v == evaluateThresholds(config.Thresholds, metrics)
                 c == [cyc EXCEPT !.collect = "ok", !.evaluations = @ + 1,
                                  !.nviolations = Len(v)]
             IN  IF ShouldAbort(v)
                 THEN /\ collectedMetrics' = <<>>
                      /\ pc' = "abort"
                      /\ cyc' = [c EXCEPT !.abortCalls = @ + 1]
                      /\ UNCHANGED hist
                 ELSE ReturnToRun(c, NilError)
    /\ UNCHANGED <<ctxDone, tickPending, runResult, operationInProgress,
                   currentOperation, config, cluster>>
    /\ UNCHANGED <<call, ret, ticks>>

\* as AbortReturned, but a failed abort is called again in the same cycle
AbortReturned_retry(c, abortErr) ==
    LET d == [c EXCEPT !.abortReturned = TRUE, !.abortErr = abortErr]
    IN  IF abortErr # NilError
        THEN IF c.abortCalls < 2
             THEN /\ pc' = "abort"
                  /\ cyc' = [d EXCEPT !.abortCalls = @ + 1]
                  /\ UNCHANGED <<hist, collectedMetrics>>
             ELSE ReturnToRun(d, Errorf("failed to abort operation", abortErr))
        ELSE ReturnToRun([d EXCEPT !.abortedLogged = TRUE], NilError)

\* AbortClusterOperation returned abortErr to abortOperation and checkHealth
AbortReturned(c, abortErr) ==
    LET d == [c EXCEPT !.abortReturned = TRUE, !.abortErr = abortErr]
    IN  IF abortErr # NilError
        THEN ReturnToRun(d, Errorf("failed to abort operation", abortErr))
        ELSE ReturnToRun([d EXCEPT !.abortedLogged = TRUE], NilError)

\* as AbortAccepted, but the request names the operation the status query saw
\* and is accepted only for that operation
AbortAccepted_sameOperation ==
    /\ pc = "abort"
    /\ cluster.state \in InProgressStates
    /\ cluster.state = currentOperation /\ ~hist.sinceQuery
    /\ cluster' = [cluster EXCEPT !.state = "Canceling"]
    /\ pc' = "poll"
    /\ cyc' = [cyc EXCEPT !.sent = @ + 1, !.abortedOther = hist.sinceQuery,
                          !.pollCalls = @ + 1]
    /\ UNCHANGED <<hist, collectedMetrics>>
    /\ UNCHANGED <<ctxDone, tickPending, runResult, operationInProgress,
                   currentOperation, config>>
    /\ UNCHANGED <<call, ret, ticks>>

\* BeginAbortLatestOperation is accepted: the request names the cluster only,
\* and the API cancels the operation that is running on it now; the wait begins
AbortAccepted ==
    /\ pc = "abort"
    /\ cluster.state \in InProgressStates
    /\ cluster' = [cluster EXCEPT !.state = "Canceling"]
    /\ pc' = "poll"
    /\ cyc' = [cyc EXCEPT !.sent = @ + 1, !.abortedOther = hist.sinceQuery,
                          !.pollCalls = @ + 1]
    /\ UNCHANGED <<hist, collectedMetrics>>
    /\ UNCHANGED <<ctxDone, tickPending, runResult, operationInProgress,
                   currentOperation, config>>
    /\ UNCHANGED <<call, ret, ticks>>

\* BeginAbortLatestOperation returns an error: the API answers 409 when no
\* operation is running, or the request fails
AbortRejected ==
    /\ pc = "abort"
    /\ \/ /\ cluster.state \notin InProgressStates
          /\ AbortReturned([cyc EXCEPT !.sent = @ + 1, !.requestErr = ErrConflict],
                           AbortRequestError(ErrConflict))
          /\ UNCHANGED cluster
       \/ /\ \E err \in {ErrServer, ErrServerUrl409} :
                AbortReturned([cyc EXCEPT !.sent = @ + 1, !.requestErr = err],
                              AbortRequestError(err))
          /\ UNCHANGED cluster
       \/ /\ ctxDone
          /\ AbortReturned([cyc EXCEPT !.requestErr = ErrCanceled],
                           AbortRequestError(ErrCanceled))
          /\ UNCHANGED cluster
    /\ UNCHANGED <<ctxDone, tickPending, runResult, operationInProgress,
                   currentOperation, config>>
    /\ UNCHANGED <<call, ret, ticks>>

\* BeginAbortLatestOperation returns
AbortRequestReturn ==
    \/ AbortAccepted
    \/ AbortRejected

\* as AbortPollReturn, but a finished cancellation is recorded as the end of the
\* operation
AbortPollReturn_idle ==
    /\ pc = "poll"
    /\ \/ /\ cluster.state # "Canceling"
          /\ AbortReturned(cyc, AbortWaitResult(NilError))
          /\ operationInProgress' = FALSE
          /\ currentOperation' = ""
       \/ /\ \E err \in TransportErrors :
                AbortReturned([cyc EXCEPT !.pollErr = err], AbortWaitResult(err))
          /\ UNCHANGED <<operationInProgress, currentOperation>>
    /\ UNCHANGED <<ctxDone, tickPending, runResult, config, cluster>>
    /\ UNCHANGED <<call, ret, ticks>>

\* PollUntilDone returns: nil once the cancellation has finished, or an error
AbortPollReturn ==
    /\ pc = "poll"
    /\ \/ /\ cluster.state # "Canceling"
          /\ AbortReturned(cyc, AbortWaitResult(NilError))
       \/ \E err \in TransportErrors :
             AbortReturned([cyc EXCEPT !.pollErr = err], AbortWaitResult(err))
    /\ UNCHANGED <<ctxDone, tickPending, runResult, operationInProgress,
                   currentOperation, config, cluster>>
    /\ UNCHANGED <<call, ret, ticks>>

\* the controller constructed with the default thresholds and with either list
\* of monitored operations: the default one, or one that names neither of the
\* operations that start
MonitoredOperationsSet == {DefaultMonitoredOperations, <<"scale">>}

InitKinds ==
    /\ pc = "select"
    /\ ctxDone = FALSE
    /\ tickPending = FALSE
    /\ runResult = "running"
    /\ operationInProgress = FALSE
    /\ currentOperation = ""
    /\ config \in {[ControllerConfig(DefaultPollInterval, DefaultThresholds)
                        EXCEPT !.MonitoredOperations = ops] : ops \in MonitoredOperationsSet}
    /\ cluster = [state |-> "Succeeded"]
    /\ collectedMetrics = <<>>
    /\ cyc = NoCycle
    /\ hist = [prevOutcome |-> "none", prevFailure |-> "none", sinceQuery |-> TRUE,
               episode |-> NoEpisode]
    /\ ticks = NoTicks
    /\ call = NoCall
    /\ ret = NoCall

----------------------------------------------------------------------------

Next ==
    \/ StartOperation
    \/ FinishOperation
    \/ FinishCancel
    \/ TickFire
    \/ Cancel
    \/ SelectDone
    \/ SelectTick
    \/ StatusReturn
    \/ TrackOperation
    \/ PodsReturn
    \/ NodesReturn
    \/ JobsReturn
    \/ AbortRequestReturn
    \/ AbortPollReturn

Spec == Init /\ [][Next]_vars

\* the same loop, over the lists of monitored operations
SpecKinds == InitKinds /\ [][Next]_vars

\* the same loop, with the ticks and the cycles counted
NextTicker ==
    \/ StartOperation
    \/ FinishOperation
    \/ FinishCancel
    \/ TickFireCounted
    \/ Cancel
    \/ SelectDone
    \/ SelectTickCounted
    \/ StatusReturn
    \/ TrackOperation
    \/ PodsReturn
    \/ NodesReturn
    \/ JobsReturn
    \/ AbortRequestReturn
    \/ AbortPollReturn

SpecTicker == Init /\ [][NextTicker]_vars

\* Run's goroutine is scheduled: when select can only take the tick, it takes it
FairSpec == Spec /\ WF_vars(SelectTick)

\* every external call returns and checkHealth goes on after it; a select at
\* which <-ctx.Done() is ready again and again takes it at some time, since
\* select chooses among its ready cases at random
LiveSpec ==
    /\ Spec
    /\ WF_vars(StatusReturn)
    /\ WF_vars(TrackOperation)
    /\ WF_vars(PodsReturn)
    /\ WF_vars(NodesReturn)
    /\ WF_vars(JobsReturn)
    /\ WF_vars(AbortRequestReturn)
    /\ WF_vars(AbortPollReturn)
    /\ SF_vars(SelectDone)

----------------------------------------------------------------------------
(* The functions applied on their own to bounded arguments *)

\* measurements: three mapped names and one without a threshold
EvalTypes ==
    {CrashingPodsPercentMetric, FailedJobsMetric, CpuUsagePercentMetric, "disk_usage_percent"}
EvalValues == {0, 10, 11}
EvalMetrics == {MetricValue(t, v) : t \in EvalTypes, v \in EvalValues}
EvalThresholds ==
    {DefaultThresholds, Thresholds(11, 15, 25, 0, 20, 10, 90),
     Thresholds(50, 100, 50, 1, 21, 85, 90)}

\* the states a container can report: running, waiting for a reason, or
\* terminated with an exit code
ContainerInputs ==
    {ContainerStatus(TRUE, NoWaiting, TRUE, 0, 0)}
        \cup {ContainerStatus(FALSE, reason, TRUE, 0, 0) :
                reason \in {"CrashLoopBackOff", "ImagePullBackOff", "ErrImagePull",
                            "CreateContainerError", "ContainerCreating"}}
        \cup {ContainerStatus(TRUE, NoWaiting, FALSE, exitCode, 0) : exitCode \in {0, 1, 137}}

\* pods of every phase with up to MaxContainers containers
PodInputs ==
    {Pod(phase, containerStatuses) :
        phase \in {"Pending", "Running", "Succeeded", "Failed", "Unknown"},
        containerStatuses \in SeqsUpTo(ContainerInputs, MaxContainers)}

\* a pod two of whose containers match
CrashingTwice ==
    Pod("Running", <<ContainerStatus(FALSE, "CrashLoopBackOff", TRUE, 0, 3),
                     ContainerStatus(TRUE, NoWaiting, FALSE, 1, 0)>>)

\* the conditions a node can report, each type at most once
ConditionInputs ==
    [Type : {"Ready"}, Status : {"True", "False", "Unknown"}]
        \cup [Type : {"MemoryPressure"}, Status : {"True", "False"}]

NodeInputs ==
    {[Conditions |-> conditions] :
        conditions \in {c \in SeqsUpTo(ConditionInputs, MaxConditions) :
                          \A i, j \in 1..Len(c) : c[i].Type = c[j].Type => i = j}}

JobInputs == {[Failed |-> failed] : failed \in {0, 1, 2}}

\* what the three List calls of one CollectMetrics can return
ListResults(S) ==
    {ListResult(<<>>, ErrServer)} \cup {ListResult(l, NilError) : l \in SeqsUpTo(S, MaxGroup)}

\* what aksClient.Get can return
StatusResponses ==
    {ClusterResponse(FALSE, FALSE, state) : state \in ProvisioningStates}
        \cup {ClusterResponse(FALSE, TRUE, ""), ClusterResponse(TRUE, TRUE, "")}

\* the environments a start can find: every identity variable set, one of them
\* not set, or none set; POLL_INTERVAL and two of the THRESHOLD_ variables hold
\* the given texts
EnvNames ==
    {AzureEnv[f] : f \in AzureFields} \cup {ThresholdEnv[f] : f \in ThresholdFields}
        \cup {"POLL_INTERVAL"}

Environment(missing, poll, crashing, failedJobs) ==
    [k \in EnvNames |->
        CASE k = "POLL_INTERVAL" -> poll
          [] k = "THRESHOLD_CRASHING_PODS_PERCENT" -> crashing
          [] k = "THRESHOLD_FAILED_JOBS" -> failedJobs
          [] \E f \in AzureFields \ missing : AzureEnv[f] = k -> <<"i", "d">>
          [] OTHER -> <<>>]

Environments ==
    { Environment(missing, poll, crashing, failedJobs) :
        missing \in {{}, AzureFields} \cup {{f} : f \in AzureFields},
        poll \in {<<>>, <<"3", "0", "s">>, <<"5", "0", "0", "m", "s">>, <<"0">>,
                  <<"a", "b", "c">>},
        crashing \in {<<>>, <<"5", "0">>, <<"1", "5", "0">>, <<"a", "b", "c">>},
        failedJobs \in {<<>>, <<"-", "5">>, <<"+", "7">>} }

\* the documents the ConfigMap file can hold
Documents ==
    { [pollInterval |-> poll,
       azure |-> [f \in AzureFields |-> identity],
       thresholds |-> [f \in ThresholdFields |->
                         CASE f = "CrashingPodsPercent" -> crashing
                           [] f = "FailedJobs" -> failedJobs
                           [] OTHER -> NoNumber]] :
        poll \in {NoNumber, Key(500), Key(60 * Second)},
        identity \in {NoText, Key(<<"f">>)},
        crashing \in {NoNumber, Key(0), Key(40), Key(150)},
        failedJobs \in {NoNumber, Key(0), Key(5)} }

\* a file without keys
EmptyDocument ==
    [pollInterval |-> NoNumber, azure |-> [f \in AzureFields |-> NoText],
     thresholds |-> [f \in ThresholdFields |-> NoNumber]]

ConfigFiles ==
    {[kind |-> k, doc |-> EmptyDocument] : k \in {"absent", "unreadable", "unparsable"}}
        \cup {[kind |-> "parsed", doc |-> d] : d \in Documents}

InitPure ==
    /\ pc = "stopped"
    /\ ctxDone = FALSE
    /\ tickPending = FALSE
    /\ runResult = "running"
    /\ cluster = [state |-> "Succeeded"]
    /\ collectedMetrics = <<>>
    /\ cyc = NoCycle
    /\ hist = [prevOutcome |-> "none", prevFailure |-> "none", sinceQuery |-> TRUE,
               episode |-> NoEpisode]
    /\ ticks = NoTicks
    /\ ret = NoCall
    /\ \/ /\ operationInProgress = FALSE
          /\ currentOperation = ""
          /\ config \in {ControllerConfig(DefaultPollInterval, t) : t \in EvalThresholds}
          /\ \/ call \in [fn : {"evaluateThresholds"},
                           metrics : SeqsUpTo(EvalMetrics, MaxLen)]
             \/ call \in [fn : {"CollectMetrics"}, pods : ListResults(PodSet),
                           nodes : ListResults(NodeSet), jobs : ListResults(JobSet)]
       \/ /\ operationInProgress = FALSE
          /\ currentOperation = ""
          /\ config = ControllerConfig(DefaultPollInterval, DefaultThresholds)
          /\ \/ call \in [fn : {"GetClusterOperationStatus"},
                           getErr : {NilError, ErrServer}, resp : StatusResponses]
             \/ call \in [fn : {"collectPodMetrics"},
                           pods : SeqsUpTo(PodSet \cup {CrashingTwice}, MaxItems)]
             \/ call \in [fn : {"collectNodeMetrics"}, nodes : SeqsUpTo(NodeSet, MaxItems)]
             \/ call \in [fn : {"collectJobMetrics"}, jobs : SeqsUpTo(JobInputs, MaxItems)]
             \/ call \in [fn : {"isPodCrashing"}, pod : PodInputs]
             \/ call \in [fn : {"isNodeReady"}, node : NodeInputs]
             \/ call \in [fn : {"LoadConfigFromConfigMap"}, env : Environments,
                           file : ConfigFiles]
       \/ /\ operationInProgress \in BOOLEAN
          /\ config \in {ControllerConfig(DefaultPollInterval, t) : t \in EvalThresholds}
          /\ currentOperation \in {""} \cup InProgressStates
          /\ call = [fn |-> "GetStatus",
                     controller |-> [operationInProgress |-> operationInProgress,
                                     currentOperation |-> currentOperation,
                                     config |-> config]]

\* c.evaluateThresholds(collectedMetrics)
ApplyEvaluate ==
    /\ call.fn = "evaluateThresholds"
    /\ ret.fn = "none"
    /\ ret' = [fn |-> call.fn,
               violations |-> evaluateThresholds(config.Thresholds, call.metrics)]
    /\ UNCHANGED <<loop, call>>

\* c.azureClient.GetClusterOperationStatus(ctx)
ApplyStatus ==
    /\ call.fn = "GetClusterOperationStatus"
    /\ ret.fn = "none"
    /\ LET r == GetClusterOperationStatus(call.getErr, call.resp)
       IN  ret' = [fn |-> call.fn, status |-> r.status, err |-> r.err]
    /\ UNCHANGED <<loop, call>>

\* c.metricsCollector.CollectMetrics(ctx)
ApplyCollect ==
    /\ call.fn = "CollectMetrics"
    /\ ret.fn = "none"
    /\ LET r == CollectMetrics(call.pods, call.nodes, call.jobs)
       IN  ret' = [fn |-> call.fn, metrics |-> r.metrics, err |-> r.err,
                   listCalls |-> r.listCalls]
    /\ UNCHANGED <<loop, call>>

\* collectPodMetrics on the pods that were listed
ApplyCollectPods ==
    /\ call.fn = "collectPodMetrics"
    /\ ret.fn = "none"
    /\ ret' = [fn |-> call.fn, metrics |-> collectPodMetrics(call.pods)]
    /\ UNCHANGED <<loop, call>>

\* collectNodeMetrics on the nodes that were listed
ApplyCollectNodes ==
    /\ call.fn = "collectNodeMetrics"
    /\ ret.fn = "none"
    /\ ret' = [fn |-> call.fn, metrics |-> collectNodeMetrics(call.nodes)]
    /\ UNCHANGED <<loop, call>>

\* as ApplyGetStatus, but reporting the status clears it
ApplyGetStatus_clears ==
    /\ call.fn = "GetStatus"
    /\ ret.fn = "none"
    /\ ret' = [fn |-> call.fn, status |-> GetStatus]
    /\ operationInProgress' = FALSE
    /\ currentOperation' = ""
    /\ UNCHANGED <<pc, ctxDone, tickPending, runResult, config, cluster,
                   collectedMetrics, cyc, hist, ticks, call>>

\* c.GetStatus()
ApplyGetStatus ==
    /\ call.fn = "GetStatus"
    /\ ret.fn = "none"
    /\ ret' = [fn |-> call.fn, status |-> GetStatus]
    /\ UNCHANGED <<loop, call>>

\* config.LoadConfigFromConfigMap(*configPath) in main
ApplyLoadConfig ==
    /\ call.fn = "LoadConfigFromConfigMap"
    /\ ret.fn = "none"
    /\ LET r == LoadConfigFromConfigMap(call.env, call.file)
       IN  ret' = [fn |-> call.fn, config |-> r.config, err |-> r.err]
    /\ UNCHANGED <<loop, call>>

\* collectJobMetrics on the jobs that were listed
ApplyCollectJobs ==
    /\ call.fn = "collectJobMetrics"
    /\ ret.fn = "none"
    /\ ret' = [fn |-> call.fn, metrics |-> collectJobMetrics(call.jobs)]
    /\ UNCHANGED <<loop, call>>

\* c.isPodCrashing(pod)
ApplyIsPodCrashing ==
    /\ call.fn = "isPodCrashing"
    /\ ret.fn = "none"
    /\ ret' = [fn |-> call.fn, crashing |-> isPodCrashing(call.pod)]
    /\ UNCHANGED <<loop, call>>

\* c.isNodeReady(node)
ApplyIsNodeReady ==
    /\ call.fn = "isNodeReady"
    /\ ret.fn = "none"
    /\ ret' = [fn |-> call.fn, ready |-> isNodeReady(call.node)]
    /\ UNCHANGED <<loop, call>>

NextPure ==
    \/ ApplyCollectJobs
    \/ ApplyIsPodCrashing
    \/ ApplyIsNodeReady
    \/ ApplyLoadConfig
    \/ ApplyGetStatus
    \/ ApplyEvaluate
    \/ ApplyStatus
    \/ ApplyCollect
    \/ ApplyCollectPods
    \/ ApplyCollectNodes

SpecPure == InitPure /\ [][NextPure]_vars

----------------------------------------------------------------------------
(* Properties of the functions *)

\* the threshold the policy holds for a measurement name, 0 when it holds none
PolicyFields ==
    { <<"crashing_pods_percent", "CrashingPodsPercent">>,
      <<"pending_pods_percent", "PendingPodsPercent">>,
      <<"not_ready_nodes_percent", "NotReadyNodesPercent">>,
      <<"failed_jobs", "FailedJobs">>,
      <<"restart_count", "RestartCount">>,
      <<"cpu_usage_percent", "CpuUsagePercent">>,
      <<"memory_usage_percent", "MemoryUsagePercent">> }

PolicyThreshold(P, name) ==
    IF \E f \in PolicyFields : f[1] = name
    THEN P[(CHOOSE f \in PolicyFields : f[1] = name)[2]]
    ELSE 0

\* C4: evaluateThresholds returns one violation for each measurement whose
\* value is strictly greater than the policy's threshold for its name (0 when
\* the name has none) and nothing else, in the order of the snapshot; a value
\* equal to its threshold gives no violation
C4_EvaluateExact ==
    ret.fn = "evaluateThresholds" =>
        LET S == call.metrics
            P == config.Thresholds
            V == ret.violations
            over == {i \in 1..Len(S) : S[i].Value > PolicyThreshold(P, S[i].Type)}
            rank(i) == Cardinality({j \in over : j <= i})
        IN  /\ Len(V) = Cardinality(over)
            /\ \A i \in over :
                  V[rank(i)] = [Type |-> S[i].Type, Value |-> S[i].Value,
                               Threshold |-> PolicyThreshold(P, S[i].Type)]
            /\ \A i \in 1..Len(S) :
                  S[i].Value = PolicyThreshold(P, S[i].Type) =>
                      \A k \in 1..Len(V) :
                          ~(V[k].Type = S[i].Type /\ V[k].Value = S[i].Value)

\* a snapshot with a value at its threshold, then one just above its
\* threshold, then a positive value of a name without threshold
C4_Witness ==
    /\ ret.fn = "evaluateThresholds"
    /\ Len(call.metrics) = 3
    /\ call.metrics[1] = MetricValue(CrashingPodsPercentMetric, 11)
    /\ config.Thresholds.CrashingPodsPercent = 11
    /\ call.metrics[2] = MetricValue(CpuUsagePercentMetric, 11)
    /\ config.Thresholds.CpuUsagePercent = 10
    /\ call.metrics[3] = MetricValue("disk_usage_percent", 10)
    /\ Len(ret.violations) = 2

\* C6: GetClusterOperationStatus reports an operation in progress, of the
\* kind the raw provisioning state names, exactly when that state is one of
\* Upgrading, Updating, Scaling, Creating, Deleting; for every other state
\* and for an absent one it reports none in progress and an empty kind
C6_StatusMapping ==
    ret.fn = "GetClusterOperationStatus" =>
        LET resp == call.resp
            present == ~resp.PropertiesNil /\ ~resp.ProvisioningStateNil
            raw == resp.ProvisioningState
        IN  /\ ret.err = NilError <=> call.getErr = NilError
            /\ ret.err = NilError =>
                  IF present /\ raw \in {"Upgrading", "Updating", "Scaling",
                                         "Creating", "Deleting"}
                  THEN ret.status.InProgress /\ ret.status.OperationType = raw
                  ELSE ~ret.status.InProgress /\ ret.status.OperationType = ""

\* Deleting is in progress
C6_Witness ==
    /\ ret.fn = "GetClusterOperationStatus"
    /\ ret.err = NilError
    /\ call.resp = ClusterResponse(FALSE, FALSE, "Deleting")
    /\ ret.status.InProgress

----------------------------------------------------------------------------
(* Properties of the control loop *)

\* C1: in every cycle abortOperation is called at most once, and only after
\* that cycle's status query succeeded with InProgress, its snapshot was
\* collected and the evaluation found a violation; when the abort call has
\* returned, whatever its outcome, the cycle is over and no second call or
\* request was made
C1_AbortAtMostOnce ==
    /\ cyc.abortCalls <= 1
    /\ cyc.sent <= 1
    /\ cyc.pollCalls <= 1
    /\ cyc.abortCalls = 1 =>
          /\ cyc.status = "ok" /\ cyc.result.InProgress
          /\ cyc.collect = "ok" /\ cyc.evaluations = 1
          /\ cyc.nviolations >= 1
    /\ cyc.abortReturned => cyc.done /\ cyc.abortCalls = 1

\* a cycle whose abort failed is over
C1_Witness ==
    /\ cyc.done /\ cyc.abortCalls = 1
    /\ AbortOutcome(cyc) = "Failed"

\* C2: in every cycle whose status query reported an operation in progress,
\* whose snapshot was collected and violates a threshold, abortOperation is
\* called exactly once, whatever the earlier cycles did
C2_ViolationAborts ==
    Violating(cyc) => cyc.abortCalls = 1

\* the cycle after a failed abort sees the same operation violating and
\* aborts again
C2_Witness ==
    /\ Violating(cyc) /\ cyc.abortCalls = 1
    /\ cyc.sameOp /\ hist.prevOutcome = "Failed"

\* C3 as claimed: over a run of consecutive cycles that see the same
\* operation in progress and violating, one cancellation request is sent
\* (while the context is not cancelled)
C3_OneRequestPerEpisode ==
    (hist.episode.len > 0 /\ ~ctxDone) => hist.episode.sent = 1

\* C3 as amended: over such a run, abortOperation is called once in every
\* cycle of the run, and every call sends a cancellation request unless the
\* context was cancelled
C3_OneRequestPerCycle ==
    /\ hist.episode.calls = hist.episode.len
    /\ hist.episode.sent <= hist.episode.len
    /\ ~ctxDone => hist.episode.sent = hist.episode.len

\* a run of two cycles has sent two requests
C3_Witness ==
    /\ hist.episode.len = 2
    /\ hist.episode.sent = 2

\* the response names no operation in progress
ReportsNoOperation(resp) ==
    \/ resp.PropertiesNil
    \/ resp.ProvisioningStateNil
    \/ resp.ProvisioningState \notin
          {"Upgrading", "Updating", "Scaling", "Creating", "Deleting"}

\* C5: in a cycle whose status query reports no operation in progress, no
\* snapshot is collected, nothing is evaluated, no abort is attempted, the
\* cycle is over and the tracked state is Idle
C5_NotInProgressSkipsCycle ==
    (cyc.status = "ok" /\ ReportsNoOperation(cyc.response)) =>
        /\ cyc.collectCalls = 0 /\ cyc.listCalls = 0
        /\ cyc.evaluations = 0
        /\ cyc.abortCalls = 0 /\ cyc.sent = 0
        /\ operationInProgress = FALSE
        /\ pc \in {"track", "select", "stopped"}
        /\ pc # "track" =>
              /\ cyc.done
              /\ currentOperation = ""
              /\ cyc.err = NilError

\* the loop was Monitoring, the query saw the unrecognized state Canceling
C5_Witness ==
    /\ cyc.done /\ cyc.status = "ok"
    /\ cyc.preInProgress
    /\ ~cyc.response.ProvisioningStateNil
    /\ cyc.response.ProvisioningState = "Canceling"
    /\ ~operationInProgress

\* C7 as claimed: when the cancellation request is rejected with 409, the
\* cycle surfaces no error and Run does not log "Health check failed"
C7_TooLateIsBenign ==
    (cyc.abortReturned /\ cyc.requestErr.status = 409) =>
        /\ cyc.err = NilError
        /\ ~cyc.failedLogged

\* C8 as claimed: the abort call ends Succeeded exactly when the request was
\* accepted and the wait succeeded, TooLate exactly when the request failed
\* with a 409 conflict, Failed in every other case
C8_AbortOutcomes ==
    cyc.abortReturned =>
        /\ AbortOutcome(cyc) = "Succeeded" <=>
              (cyc.requestErr = NilError /\ cyc.pollCalls = 1 /\ cyc.pollErr = NilError)
        /\ AbortOutcome(cyc) = "TooLate" <=> cyc.requestErr.status = 409
        /\ AbortOutcome(cyc) \in {"Succeeded", "TooLate", "Failed"}

\* C9: Run returns only when the context is cancelled, and then returns nil;
\* a cycle that ends with an error leaves Run in its select, where the next
\* tick starts the next cycle
C9_ErrorsDoNotStopRun ==
    /\ [](/\ pc = "stopped" => (ctxDone /\ runResult = "nil")
          /\ pc # "stopped" => runResult = "running"
          /\ (pc = "select" /\ tickPending /\ hist.episode.len < MaxEpisode)
                => ENABLED SelectTick)
    /\ [][(~cyc.done /\ cyc'.done /\ cyc'.err # NilError) => pc' = "select"]_vars
    /\ (/\ pc = "select" /\ cyc.started /\ cyc.err # NilError
        /\ tickPending /\ hist.episode.len < MaxEpisode)
           ~> (pc = "status" \/ ctxDone)

\* a cycle runs after a cycle whose snapshot collection failed
C9_Witness ==
    /\ hist.prevFailure = "collect"
    /\ cyc.started /\ ~cyc.done
    /\ ~ctxDone

\* C10: when the status query fails, operationInProgress and currentOperation
\* keep the values they had before the cycle, no snapshot is collected, no
\* abort is attempted, the query is not repeated and the cycle is over
C10_StatusErrorKeepsState ==
    cyc.status = "err" =>
        /\ operationInProgress = cyc.preInProgress
        /\ currentOperation = cyc.preOperation
        /\ cyc.statusCalls = 1
        /\ cyc.collectCalls = 0 /\ cyc.listCalls = 0
        /\ cyc.evaluations = 0
        /\ cyc.abortCalls = 0
        /\ cyc.done

\* the loop stays Monitoring though the operation has ended
C10_Witness ==
    /\ cyc.status = "err"
    /\ operationInProgress
    /\ cluster.state \notin InProgressStates

\* C11: when snapshot collection fails in a cycle whose status query reported
\* an operation in progress, the cycle ends there with the error: nothing is
\* evaluated, no abort is attempted, and the loop keeps operationInProgress
\* true with the kind the query reported; the next cycle that finds the
\* operation in progress collects again
C11_CollectErrorSkipsCycle ==
    /\ cyc.collect = "err" =>
          /\ cyc.status = "ok" /\ cyc.result.InProgress
          /\ cyc.collectCalls = 1
          /\ cyc.evaluations = 0 /\ cyc.nviolations = 0
          /\ cyc.abortCalls = 0 /\ cyc.sent = 0
          /\ cyc.done /\ pc \in {"select", "stopped"}
          /\ cyc.err # NilError /\ cyc.failedLogged /\ ~cyc.abortedLogged
          /\ operationInProgress = TRUE
          /\ currentOperation = cyc.result.OperationType
    /\ (/\ hist.prevFailure = "collect"
        /\ cyc.status = "ok" /\ cyc.result.InProgress
        /\ pc # "track") => cyc.collectCalls = 1

\* the cycle after a failed collection finds the same operation and collects
\* again
C11_Witness ==
    /\ hist.prevFailure = "collect"
    /\ cyc.sameOp
    /\ cyc.collectCalls = 1
    /\ operationInProgress

\* C12: CollectMetrics returns either the complete snapshot of the three
\* groups (pod measurements, node measurement, job measurement, in that order)
\* and no error, or no measurement at all and the error of the first List call
\* that failed; the groups after the failing one are not listed
C12_CollectAllOrNothing ==
    ret.fn = "CollectMetrics" =>
        LET results == <<call.pods, call.nodes, call.jobs>>
            names == <<"failed to list pods", "failed to list nodes", "failed to list jobs">>
            failed == {i \in 1..3 : results[i].err # NilError}
        IN  IF failed = {}
            THEN /\ ret.err = NilError
                 /\ ret.listCalls = 3
                 /\ ret.metrics = collectPodMetrics(call.pods.items)
                                    \o collectNodeMetrics(call.nodes.items)
                                    \o collectJobMetrics(call.jobs.items)
                 /\ [i \in 1..Len(ret.metrics) |-> ret.metrics[i].Type] =
                       <<CrashingPodsPercentMetric, PendingPodsPercentMetric,
                         RestartCountMetric, NotReadyNodesPercentMetric, FailedJobsMetric>>
            ELSE LET first == CHOOSE i \in failed : \A j \in failed : i <= j
                 IN  /\ ret.metrics = <<>>
                     /\ ret.err # NilError
                     /\ ret.err = Errorf(names[first], results[first].err)
                     /\ ret.listCalls = first

\* listing the nodes fails after the pods were listed, and the jobs could have
\* been listed
C12_Witness ==
    /\ ret.fn = "CollectMetrics"
    /\ call.pods.err = NilError /\ Len(call.pods.items) > 0
    /\ call.nodes.err # NilError
    /\ call.jobs.err = NilError
    /\ ret.listCalls = 2

\* p is the integer floor of (count * 100) / total, or 0 when total is 0, and
\* lies in 0..100
IsFloorPercent(p, count, total) ==
    /\ p \in 0..100
    /\ IF total = 0
       THEN p = 0
       ELSE /\ p * total <= count * 100
            /\ count * 100 < (p + 1) * total

\* C19: each of the three percentage measurements (crashing pods, pending
\* pods, not-ready nodes) is 0 when the group is empty and otherwise the integer
\* floor of (count * 100) / total, a value in 0..100
C19_PercentIsFloor ==
    /\ ret.fn = "collectPodMetrics" =>
          LET total == Len(call.pods)
              crashing == Cardinality({i \in 1..total : isPodCrashing(call.pods[i])})
              pending == Cardinality({i \in 1..total : call.pods[i].Phase = "Pending"})
          IN  /\ ret.metrics[1].Type = CrashingPodsPercentMetric
              /\ IsFloorPercent(ret.metrics[1].Value, crashing, total)
              /\ ret.metrics[2].Type = PendingPodsPercentMetric
              /\ IsFloorPercent(ret.metrics[2].Value, pending, total)
    /\ ret.fn = "collectNodeMetrics" =>
          LET total == Len(call.nodes)
              notReady == Cardinality({i \in 1..total : ~isNodeReady(call.nodes[i])})
          IN  /\ ret.metrics[1].Type = NotReadyNodesPercentMetric
              /\ IsFloorPercent(ret.metrics[1].Value, notReady, total)

\* one crashing pod of three gives 33, and two pending pods of three give 66
C19_Witness ==
    /\ ret.fn = "collectPodMetrics"
    /\ Len(call.pods) = 3
    /\ ret.metrics[1].Value = 33
    /\ ret.metrics[2].Value = 66

\* CollectMetrics returned the snapshot of a cluster without pods and nodes,
\* and every threshold of the policy is greater than 0
EmptyClusterCollected ==
    /\ ret.fn = "CollectMetrics"
    /\ ret.err = NilError
    /\ call.pods.items = <<>>
    /\ call.nodes.items = <<>>
    /\ \A f \in DOMAIN config.Thresholds : config.Thresholds[f] > 0

\* the measurements of the snapshot that are percentages
PercentValues(metrics) ==
    {metrics[i].Value : i \in {j \in 1..Len(metrics) :
        metrics[j].Type \in {CrashingPodsPercentMetric, PendingPodsPercentMetric,
                             NotReadyNodesPercentMetric}}}

\* C20 as stated: with 0 pods and 0 nodes every percentage measurement is 0
\* and the snapshot yields no violation under any policy whose thresholds are
\* greater than 0
C20_EmptyClusterNoViolation ==
    EmptyClusterCollected =>
        /\ PercentValues(ret.metrics) = {0}
        /\ evaluateThresholds(config.Thresholds, ret.metrics) = <<>>

\* C20: with 0 pods and 0 nodes the three percentage measurements and the
\* restart count are 0 and none of them violates a policy whose thresholds are
\* greater than 0; the snapshot yields a violation exactly when the number of
\* failed jobs exceeds the FailedJobs threshold, and then only that one
C20_EmptyClusterOnlyJobs ==
    EmptyClusterCollected =>
        LET v == evaluateThresholds(config.Thresholds, ret.metrics)
            failedJobs == Cardinality({i \in 1..Len(call.jobs.items) :
                                         call.jobs.items[i].Failed > 0})
        IN  /\ PercentValues(ret.metrics) = {0}
            /\ ret.metrics[3] = MetricValue(RestartCountMetric, 0)
            /\ ret.metrics[5] = MetricValue(FailedJobsMetric, failedJobs)
            /\ \A i \in 1..Len(v) : v[i].Type = FailedJobsMetric
            /\ ShouldAbort(v) <=> failedJobs > config.Thresholds.FailedJobs

\* no pods, no nodes, and two failed jobs under a FailedJobs threshold of 1
C20_Witness ==
    /\ EmptyClusterCollected
    /\ config.Thresholds.FailedJobs = 1
    /\ Len(call.jobs.items) = 2
    /\ ShouldAbort(evaluateThresholds(config.Thresholds, ret.metrics))

\* C18: GetStatus returns the operationInProgress, currentOperation, poll
\* interval and thresholds the controller has when it is called, and leaves
\* the controller's fields and its configuration as they were; no status
\* query, snapshot collection or abort is made
C18_GetStatusReadOnly ==
    ret.fn = "GetStatus" =>
        /\ ret.status =
              [operationInProgress |-> call.controller.operationInProgress,
               currentOperation |-> call.controller.currentOperation,
               pollInterval |-> call.controller.config.PollInterval,
               thresholds |-> call.controller.config.Thresholds]
        /\ operationInProgress = call.controller.operationInProgress
        /\ currentOperation = call.controller.currentOperation
        /\ config = call.controller.config
        /\ cyc = NoCycle
        /\ collectedMetrics = <<>>
        /\ pc = "stopped"

\* GetStatus was called while an operation was being monitored
C18_Witness ==
    /\ ret.fn = "GetStatus"
    /\ ret.status.operationInProgress
    /\ ret.status.currentOperation = "Upgrading"
    /\ ret.status.pollInterval = DefaultPollInterval

\* C14 as stated: once the cancellation context is done no cycle begins, also
\* when a tick is pending at that moment
C14_NoCycleAfterCancel ==
    [][ctxDone => ~(pc = "select" /\ pc' = "status")]_vars

\* the steps of a cycle between the tick that starts it and its return to Run
InCycle == {"status", "track", "pods", "nodes", "jobs", "abort", "poll"}

\* C15: at most one cycle and at most one abort call are in flight at any time;
\* a tick that fires during a cycle stays pending and is taken only by the
\* select that follows the end of that cycle
C15_NoOverlap ==
    /\ [](/\ (cyc.started /\ ~cyc.done) <=> pc \in InCycle
          /\ cyc.statusCalls <= 1
          /\ cyc.abortCalls - (IF cyc.abortReturned THEN 1 ELSE 0)
                = (IF pc \in {"abort", "poll"} THEN 1 ELSE 0))
    /\ [][(tickPending /\ ~tickPending') =>
            /\ pc = "select" /\ pc' = "status"
            /\ cyc.started => cyc.done]_vars

\* a tick fired while the abort call of the running cycle was waiting
C15_Witness ==
    /\ pc = "poll"
    /\ tickPending
    /\ ~cyc.done

\* the names of the measurements, in order
MetricNames(metrics) == [i \in 1..Len(metrics) |-> metrics[i].Type]

\* C16: in a cycle the snapshot is collected only after the cycle's status
\* query has succeeded, it is evaluated only when all three groups have been
\* collected in this cycle, and abort is called only after the evaluation; a
\* cycle begins without any measurement of an earlier cycle, and collection,
\* evaluation and abort work on the status this cycle's query recorded
C16_StepsInOrder ==
    /\ cyc.collectCalls > 0 =>
          /\ cyc.statusCalls = 1 /\ cyc.status = "ok"
          /\ pc \notin {"status", "track"}
    /\ cyc.evaluations > 0 =>
          /\ cyc.collectCalls = 1 /\ cyc.collect = "ok" /\ cyc.listCalls = 3
          /\ pc \notin {"pods", "nodes", "jobs"}
    /\ cyc.abortCalls > 0 => (cyc.evaluations = 1 /\ cyc.nviolations > 0)
    /\ pc \in {"pods", "nodes", "jobs"} =>
          /\ cyc.evaluations = 0 /\ cyc.abortCalls = 0
          /\ cyc.listCalls = (CASE pc = "pods" -> 1 [] pc = "nodes" -> 2 [] pc = "jobs" -> 3)
    /\ MetricNames(collectedMetrics) =
          (CASE pc = "nodes" ->
                  <<CrashingPodsPercentMetric, PendingPodsPercentMetric, RestartCountMetric>>
             [] pc = "jobs" ->
                  <<CrashingPodsPercentMetric, PendingPodsPercentMetric, RestartCountMetric,
                    NotReadyNodesPercentMetric>>
             [] OTHER -> <<>>)
    /\ pc \in {"pods", "nodes", "jobs", "abort", "poll"} =>
          /\ cyc.status = "ok" /\ cyc.result.InProgress
          /\ operationInProgress
          /\ currentOperation = cyc.result.OperationType

\* a later cycle, after one that failed while collecting, has evaluated its
\* own snapshot and is in its abort call
C16_Witness ==
    /\ hist.prevFailure = "collect"
    /\ cyc.evaluations = 1
    /\ pc = "abort"

\* C17 as stated: at every moment GetStatus returns the pair
\* (operationInProgress, currentOperation) that one status query wrote: that of
\* this cycle's query once it has succeeded, and before that the pair the
\* controller had when the cycle began
C17_ConsistentStatus ==
    <<GetStatus.operationInProgress, GetStatus.currentOperation>> =
        IF cyc.status = "ok"
        THEN <<cyc.result.InProgress, cyc.result.OperationType>>
        ELSE <<cyc.preInProgress, cyc.preOperation>>

\* C13: once the cancellation context is done Run returns nil at some time,
\* wherever the loop is then: at the select, or inside a cycle in the status
\* query, the snapshot collection or the abort call, given that each of these
\* calls returns
C13_CancelStopsRun ==
    ctxDone ~> (pc = "stopped" /\ runResult = "nil")

\* Run has returned after a cancellation that came while the abort call of a
\* cycle was waiting
C13_Witness ==
    /\ pc = "stopped" /\ runResult = "nil"
    /\ cyc.pollCalls = 1
    /\ cyc.pollErr # NilError

\* the percent-typed fields of ThresholdsConfig
PercentFields ==
    {"CrashingPodsPercent", "PendingPodsPercent", "NotReadyNodesPercent",
     "CpuUsagePercent", "MemoryUsagePercent"}

\* C21 as stated: a configuration is returned without error only when all six
\* identity fields are present, the poll interval is at least 1 second and
\* every percent-typed threshold lies in 0..100
C21_InvalidConfigNeverLoads ==
    (ret.fn = "LoadConfigFromConfigMap" /\ ret.err = NilError) =>
        /\ \A f \in AzureFields : ret.config.Azure[f] # <<>>
        /\ ret.config.PollInterval >= Second
        /\ \A f \in PercentFields : ret.config.Thresholds[f] \in 0..100

\* C22 as stated: when loading succeeds, every threshold the file holds a value
\* for has that value in the configuration returned, whatever the environment
\* holds
C22_FileThresholdWins ==
    (ret.fn = "LoadConfigFromConfigMap" /\ ret.err = NilError
        /\ call.file.kind = "parsed") =>
        \A f \in ThresholdFields :
            call.file.doc.thresholds[f].present =>
                ret.config.Thresholds[f] = call.file.doc.thresholds[f].value

\* the measurement's name is none of the seven names with a threshold
Unmapped(m) == m.Type \notin MetricTypes

\* C23: a measurement whose name has no threshold mapping is evaluated against
\* 0: the violations with such a name are, in order, exactly the unmapped
\* measurements with a positive value, each reported with threshold 0; an
\* unmapped measurement of value 0 is not reported
C23_UnmappedThresholdZero ==
    ret.fn = "evaluateThresholds" =>
        LET positive(m) == Unmapped(m) /\ m.Value > 0
            flagged == SelectSeq(call.metrics, positive)
        IN  SelectSeq(ret.violations, Unmapped) =
                [i \in 1..Len(flagged) |->
                    [Type |-> flagged[i].Type, Value |-> flagged[i].Value, Threshold |-> 0]]

\* an unmapped measurement of value 10 is flagged, one of value 0 is not
C23_Witness ==
    /\ ret.fn = "evaluateThresholds"
    /\ call.metrics = <<MetricValue("disk_usage_percent", 0),
                        MetricValue("disk_usage_percent", 10)>>
    /\ Len(ret.violations) = 1
    /\ ret.violations[1].Threshold = 0

\* C24: the abort request is accepted whenever some operation is running on
\* the cluster at the moment of the call, also when that operation started
\* after the status query of the cycle and is of another kind than the one
\* recorded; an abort that cancelled such a later operation was sent once, in
\* a cycle whose status query saw an operation in progress
C24_AbortCancelsLatest ==
    /\ (pc = "abort" /\ cluster.state \in InProgressStates) => ENABLED AbortAccepted
    /\ cyc.abortedOther =>
          /\ cyc.status = "ok" /\ cyc.result.InProgress
          /\ cyc.sent = 1 /\ cyc.pollCalls = 1
          /\ currentOperation = cyc.result.OperationType

\* the status query saw an upgrade; it ended and another operation started
\* before the abort request, which cancelled the new one
C24_Witness ==
    /\ pc = "poll"
    /\ cyc.abortedOther
    /\ cyc.result.OperationType = "Upgrading"
    /\ cluster.state = "Canceling"

\* C25: operationInProgress and currentOperation change only in the two
\* assignments that follow a successful status query; collection, evaluation
\* and the abort call leave them as they are whatever their outcome, so after
\* an abort that succeeded the loop still holds true and the kind the query of
\* that cycle reported
C25_OnlyStatusQueryWrites ==
    /\ [][/\ operationInProgress' # operationInProgress =>
              (pc = "status" /\ cyc'.status = "ok")
          /\ currentOperation' # currentOperation =>
              (pc = "track" /\ cyc.status = "ok")]_vars
    /\ [](cyc.abortReturned =>
            /\ operationInProgress
            /\ currentOperation = cyc.result.OperationType)

\* the abort succeeded and the cancellation has finished, and the loop still
\* reports the operation
C25_Witness ==
    /\ cyc.abortedLogged
    /\ cyc.done
    /\ cluster.state = "Canceled"
    /\ operationInProgress
    /\ currentOperation # ""

\* C26: a snapshot returned without error holds exactly five measurements:
\* crashing-pods percent, pending-pods percent, restart count, not-ready-nodes
\* percent and failed jobs, in this order, so no name twice, and no value is
\* negative
C26_SnapshotShape ==
    (ret.fn = "CollectMetrics" /\ ret.err = NilError) =>
        /\ Len(ret.metrics) = 5
        /\ \A i, j \in 1..Len(ret.metrics) :
              ret.metrics[i].Type = ret.metrics[j].Type => i = j
        /\ ret.metrics[1].Type = CrashingPodsPercentMetric
        /\ ret.metrics[2].Type = PendingPodsPercentMetric
        /\ ret.metrics[3].Type = RestartCountMetric
        /\ ret.metrics[4].Type = NotReadyNodesPercentMetric
        /\ ret.metrics[5].Type = FailedJobsMetric
        /\ \A i \in 1..Len(ret.metrics) : ret.metrics[i].Value >= 0

\* a snapshot of a cluster with two failed jobs
C26_Witness ==
    /\ ret.fn = "CollectMetrics" /\ ret.err = NilError
    /\ Len(call.pods.items) = 2
    /\ ret.metrics[5].Value = 2

\* the claim's description of a crashing pod
CrashingAsClaimed(pod) ==
    \/ pod.Phase = "Failed"
    \/ \E i \in 1..Len(pod.ContainerStatuses) :
          /\ ~pod.ContainerStatuses[i].WaitingNil
          /\ pod.ContainerStatuses[i].Reason \in
                {"CrashLoopBackOff", "ImagePullBackOff", "ErrImagePull",
                 "CreateContainerError"}
    \/ \E i \in 1..Len(pod.ContainerStatuses) :
          /\ ~pod.ContainerStatuses[i].TerminatedNil
          /\ pod.ContainerStatuses[i].ExitCode # 0

\* C27: isPodCrashing holds of a pod exactly when its phase is Failed, or a
\* container of it waits with one of the four reasons, or a container of it
\* terminated with a non-zero exit code; the crashing percentage counts each
\* such pod once, however many of its containers match
C27_CrashingPods ==
    /\ ret.fn = "isPodCrashing" => (ret.crashing <=> CrashingAsClaimed(call.pod))
    /\ ret.fn = "collectPodMetrics" =>
          LET total == Len(call.pods)
              crashing == Cardinality({i \in 1..total : CrashingAsClaimed(call.pods[i])})
          IN  /\ total > 0 => ret.metrics[1].Value = (crashing * 100) \div total
              /\ total = 0 => ret.metrics[1].Value = 0

\* one pod of two crashes, with two matching containers, and counts once
C27_Witness ==
    /\ ret.fn = "collectPodMetrics"
    /\ Len(call.pods) = 2
    /\ call.pods[1] = CrashingTwice
    /\ ret.metrics[1].Value = 50

\* C28: isNodeReady is false of a node exactly when it has no condition of
\* type Ready or its Ready condition has a status other than True; the
\* failed-jobs measurement is the number of jobs whose Failed counter is
\* greater than 0
C28_NotReadyAndFailed ==
    /\ ret.fn = "isNodeReady" =>
          LET conditions == call.node.Conditions
              ready == {i \in 1..Len(conditions) : conditions[i].Type = "Ready"}
          IN  ~ret.ready <=>
                (ready = {} \/ \E i \in ready : conditions[i].Status # "True")
    /\ ret.fn = "collectJobMetrics" =>
          ret.metrics =
            <<MetricValue(FailedJobsMetric,
                Cardinality({i \in 1..Len(call.jobs) : call.jobs[i].Failed > 0}))>>

\* a node whose Ready condition, listed second, is Unknown
C28_Witness ==
    /\ ret.fn = "isNodeReady"
    /\ Len(call.node.Conditions) = 2
    /\ call.node.Conditions[2] = [Type |-> "Ready", Status |-> "Unknown"]
    /\ ~ret.ready

\* C29: no step of the loop changes the poll interval or a threshold: the
\* configuration the controller was constructed with is the one every cycle
\* evaluates against
C29_ConfigNeverChanges ==
    [][config' = config]_vars

\* a second violating cycle of a run has evaluated its snapshot, under
\* thresholds other than the defaults
C29_Witness ==
    /\ hist.episode.len >= 1
    /\ cyc.evaluations = 1
    /\ config.Thresholds # DefaultThresholds

\* C30: between two executions of checkHealth operationInProgress is true
\* exactly when currentOperation is not empty, and a non-empty
\* currentOperation is one of Upgrading, Updating, Scaling, Creating,
\* Deleting; before the first cycle, and as long as no status query has
\* succeeded, the fields are false and empty
C30_TrackedFieldsAgree ==
    /\ pc \in {"select", "stopped"} =>
          /\ operationInProgress <=> currentOperation # ""
          /\ currentOperation # "" => currentOperation \in InProgressStates
    /\ ~cyc.started => (operationInProgress = FALSE /\ currentOperation = "")
    /\ (cyc.status = "err" /\ ~cyc.preInProgress /\ cyc.preOperation = "") =>
          (operationInProgress = FALSE /\ currentOperation = "")

\* a cycle has ended with a deletion recorded
C30_Witness ==
    /\ pc = "select"
    /\ cyc.started /\ cyc.done
    /\ operationInProgress
    /\ currentOperation = "Deleting"

\* the snapshot CollectMetrics returns for a cluster with no unhealthy pod,
\* node or job: each of its five measurements is 0
ZeroSnapshot ==
    << MetricValue(CrashingPodsPercentMetric, 0),
       MetricValue(RestartCountMetric, 0),
       MetricValue(PendingPodsPercentMetric, 0),
       MetricValue(NotReadyNodesPercentMetric, 0),
       MetricValue(FailedJobsMetric, 0) >>

\* C31 as claimed: under every configuration that LoadConfigFromConfigMap
\* returns, Validate having accepted it, the snapshot whose measurements are
\* all 0 violates no threshold
C31_HealthyClusterNeverViolates ==
    (ret.fn = "LoadConfigFromConfigMap" /\ ret.err = NilError) =>
        evaluateThresholds(ret.config.Thresholds, ZeroSnapshot) = <<>>

\* the ends of the range Validate accepts for the two usage thresholds
UsageThresholds == {0, 100}

\* thresholds that differ from t in the two usage thresholds only
WithUsage(t, cpu, mem) ==
    [t EXCEPT !.CpuUsagePercent = cpu, !.MemoryUsagePercent = mem]

PendingTicks == ticks.fired - ticks.dropped - ticks.cycles

\* C34: ticker.C never holds more than one tick, so between two firings of
\* the ticker at most one cycle starts, however many ticks fired while the
\* previous cycle ran; the cycles started never outnumber the ticks fired,
\* and no cycle starts before the first tick
C34_TicksAreNotQueued ==
    /\ PendingTicks \in {0, 1}
    /\ tickPending <=> PendingTicks = 1
    /\ ticks.sinceTick <= 1
    /\ ticks.cycles <= ticks.fired
    /\ ticks.fired = 0 => (~cyc.started /\ ticks.cycles = 0 /\ pc \in {"select", "stopped"})

\* two ticks fired while the first cycle ran, one was dropped; the second
\* cycle started at once and has ended, and the loop waits for the next tick
C34_Witness ==
    /\ ticks.fired = 3 /\ ticks.dropped = 1 /\ ticks.cycles = 2
    /\ ticks.sinceTick = 1
    /\ pc = "select" /\ cyc.done /\ ~tickPending

====
